---------------------------- MODULE Spec2Model ----------------------------
(***************************************************************************)
(* Model of amazon-sagemaker-amt-xgboost-hyperparameter-tuning.ipynb: a    *)
(* linear notebook that splits the Iris rows, writes and uploads two CSV   *)
(* files to S3, assembles the tuning-job config and the training-job       *)
(* definition, and calls create_hyper_parameter_tuning_job once.           *)
(*                                                                         *)
(* Rows are identified by their position in the loaded DataFrame (1..N).   *)
(* Strings are TLA+ strings, handled character by character.               *)
(* External calls (S3 upload, image lookup, the SageMaker API) either      *)
(* succeed or raise; an exception is never caught by the notebook.         *)
(***************************************************************************)
EXTENDS Integers, Sequences, FiniteSets, TLC

VARIABLES
    pc,               \* the statement the run is at / "done" / "aborted"
    run,              \* number of the current run of the whole notebook
    region,           \* cell 2: boto3.Session().region_name
    bucket,           \* cell 2: sess.default_bucket()
    role,             \* cell 2: sagemaker.get_execution_role()
    data,             \* cell 3: the loaded rows, in order
    train_data,       \* cell 4
    validation_data,  \* cell 4
    test_data,        \* cell 4
    shapes,           \* cell 4: the three sizes printed (<<>> before)
    files,            \* local working directory: file name -> content
    s3,               \* remote storage: <<bucket, key>> -> content
    training_image,   \* cell 7
    jobs,             \* tuning jobs held by the service: name -> request
    trials,           \* trials of the tuning job: [started, running]
    rngTable,         \* the generator's output, fixed once observed
    rngDraws,         \* draws made from the process-global generator
    trace,            \* statements executed in the current run, in order
    failedAt,         \* the statement that raised in this run, or "none"
    uploaded,         \* objects uploaded in this run: [part, bucket, key]
    requests,         \* create-tuning-job requests sent in this run
    history,          \* what earlier runs of cell 4 had bound when they ended
    accepted          \* [run, s3] for every submission the service accepted

vars == <<pc, run, region, bucket, role, data, train_data, validation_data,
          test_data, shapes, files, s3, training_image, jobs, trials,
          rngTable, rngDraws, trace, failedAt, uploaded, requests, history,
          accepted>>

---------------------------------------------------------------------------
(* Bounds of the model *)

MaxRows == 6      \* datasets of 0..MaxRows rows (rows as explicit sets)
MaxN == 200       \* row counts 0..MaxN for the size arithmetic alone
MaxRuns == 2      \* runs of the whole notebook

---------------------------------------------------------------------------
(* Strings *)

StartsWith(s, p) == Len(p) <= Len(s) /\ SubSeq(s, 1, Len(p)) = p

EndsWith(s, p) ==
    Len(p) <= Len(s) /\ SubSeq(s, Len(s) - Len(p) + 1, Len(s)) = p

\* position of the first occurrence of character c in s, 0 when absent
RECURSIVE FindFrom(_, _, _)
FindFrom(s, c, i) ==
    IF i > Len(s) THEN 0
    ELSE IF SubSeq(s, i, i) = c THEN i
    ELSE FindFrom(s, c, i + 1)

Find(s, c) == FindFrom(s, c, 1)

\* os.path.join(a, b) for two components (posixpath)
PathJoin(a, b) ==
    IF StartsWith(b, "/") THEN b
    ELSE IF a = "" \/ EndsWith(a, "/") THEN a \o b
    ELSE a \o "/" \o b

Digit(c) ==
    CASE c = "0" -> 0 [] c = "1" -> 1 [] c = "2" -> 2 [] c = "3" -> 3
      [] c = "4" -> 4 [] c = "5" -> 5 [] c = "6" -> 6 [] c = "7" -> 7
      [] c = "8" -> 8 [] c = "9" -> 9

RECURSIVE DigitsValue(_, _)
DigitsValue(s, acc) ==
    IF s = "" THEN acc
    ELSE DigitsValue(Tail(s), 10 * acc + Digit(Head(s)))

RECURSIVE Pow10(_)
Pow10(k) == IF k = 0 THEN 1 ELSE 10 * Pow10(k - 1)

\* a decimal literal such as "0.5" or "5" as num / 10^scale
ParseDecimal(s) ==
    LET dot == Find(s, ".")
    IN  IF dot = 0 THEN [num |-> DigitsValue(s, 0), scale |-> 0]
        ELSE [num   |-> DigitsValue(SubSeq(s, 1, dot - 1)
                                      \o SubSeq(s, dot + 1, Len(s)), 0),
              scale |-> Len(s) - dot]

DecimalLeq(a, b) == a.num * Pow10(b.scale) <= b.num * Pow10(a.scale)

DecimalEq(a, b) == a.num * Pow10(b.scale) = b.num * Pow10(a.scale)

---------------------------------------------------------------------------
(* Cell 2: the ambient session *)

Sessions ==
    { [region |-> "us-east-1", bucket |-> "sagemaker-us-east-1-1111",
       role |-> "arn:aws:iam::1111:role/sm"],
      [region |-> "eu-west-1", bucket |-> "sagemaker-eu-west-1-2222",
       role |-> "arn:aws:iam::2222:role/sm"] }

prefix == "DEMO-iris-hpo-xgboost"

\* cell 3: the DataFrame of n rows, each row named by its position
Rows(n) == [i \in 1..n |-> i]

---------------------------------------------------------------------------
(* Cell 4: sklearn.model_selection.train_test_split *)

None == -1

random_state_none == None

\* random_state=42 in both calls
random_state == 42

test_size_first_40 == <<2, 5>>

\* test_size as a fraction num/den: 0.2 and 0.5
test_size_first == <<1, 5>>

test_size_second == <<1, 2>>

\* n_test = ceil(test_size * n_samples)
NTest(n, ts) == (n * ts[1] + ts[2] - 1) \div ts[2]

\* train_size is None: n_train = n_samples - n_test
NTrain(n, ts) == n - NTest(n, ts)

\* the call raises ValueError when the input or the train set is empty
SplitOk(n, ts) == n > 0 /\ NTest(n, ts) > 0 /\ NTrain(n, ts) > 0

\* check_random_state: an int seeds a fresh generator, None is the
\* process-global generator, whose state depends on what was drawn before
RngKey(seed, n) ==
    IF seed = None THEN <<None, run, rngDraws, n>> ELSE <<seed, 0, 0, n>>

\* rng.permutation(n): a fixed but unknown function of the generator state
Shuffle(seed, n) ==
    IF RngKey(seed, n) \in DOMAIN rngTable
    THEN {rngTable[RngKey(seed, n)]}
    ELSE Permutations(1..n)

\* ind_test = permutation[:n_test]
IndTest(p, nTest) == [i \in 1..nTest |-> p[i]]

\* ind_train = permutation[n_test:(n_test + n_train)]
IndTrain(p, nTest, nTrain) == [i \in 1..nTrain |-> p[nTest + i]]

\* _safe_indexing(a, indices)
Take(arr, ind) == [i \in 1..Len(ind) |-> arr[ind[i]]]

SecondSplitInput_data == data

\* the first argument of the second call: test_data
SecondSplitInput == test_data

\* the sizes cell 4 prints for n input rows (<<>> when a call raises)
SplitShapes(n) ==
    IF ~SplitOk(n, test_size_first) THEN <<>>
    ELSE LET held == NTest(n, test_size_first)
         IN  IF ~SplitOk(held, test_size_second) THEN <<>>
             ELSE << NTrain(n, test_size_first),
                     NTrain(held, test_size_second),
                     NTest(held, test_size_second) >>

---------------------------------------------------------------------------
(* Control flow: cells run top to bottom, an exception ends the run *)

Successor(step) ==
    CASE step = "split1"            -> "split2"
      [] step = "split2"            -> "to_csv"
      [] step = "to_csv"            -> "upload_train"
      [] step = "upload_train"      -> "upload_validation"
      [] step = "upload_validation" -> "retrieve_image"
      [] step = "retrieve_image"    -> "submit"
      [] step = "submit"            -> "done"

NextCell_swallow(step, ok) == Successor(step)

NextCell_retry(step, ok) ==
    IF ok THEN Successor(step)
    ELSE IF step = "submit" THEN "submit" ELSE "aborted"

NextCell(step, ok) == IF ok THEN Successor(step) ELSE "aborted"

Raised(step, ok) == IF ok THEN failedAt ELSE step

---------------------------------------------------------------------------
(* Cells 5 to 10: names, paths and the two records *)

TrainKey == PathJoin(prefix, "train/train.csv")

ValidationKey == PathJoin(prefix, "validation/validation.csv")

s3_input_train == "s3://" \o bucket \o "/" \o prefix \o "/train"

s3_input_validation_train == "s3://" \o bucket \o "/" \o prefix \o "/train"

s3_input_validation == "s3://" \o bucket \o "/" \o prefix \o "/validation/"

tuning_job_name_per_run == IF run = 1 THEN "IrisHPO" ELSE "IrisHPO-next"

tuning_job_name == "IrisHPO"

tuning_job_config_swapped ==
    [ ParameterRanges |->
        [ CategoricalParameterRanges |-> <<>>,
          ContinuousParameterRanges |->
            << [MaxValue |-> "0.1", MinValue |-> "0.5", Name |-> "eta"] >>,
          IntegerParameterRanges |->
            << [MaxValue |-> "5", MinValue |-> "2", Name |-> "max_depth"] >> ],
      ResourceLimits |->
        [ MaxNumberOfTrainingJobs |-> 4, MaxParallelTrainingJobs |-> 2 ],
      Strategy |-> "Bayesian",
      HyperParameterTuningJobObjective |->
        [ MetricName |-> "validation:rmse", Type |-> "Minimize" ] ]

tuning_job_config_parallel ==
    [ ParameterRanges |->
        [ CategoricalParameterRanges |-> <<>>,
          ContinuousParameterRanges |->
            << [MaxValue |-> "0.5", MinValue |-> "0.1", Name |-> "eta"] >>,
          IntegerParameterRanges |->
            << [MaxValue |-> "5", MinValue |-> "2", Name |-> "max_depth"] >> ],
      ResourceLimits |->
        [ MaxNumberOfTrainingJobs |-> 4, MaxParallelTrainingJobs |-> 3 ],
      Strategy |-> "Bayesian",
      HyperParameterTuningJobObjective |->
        [ MetricName |-> "validation:rmse", Type |-> "Minimize" ] ]

tuning_job_config ==
    [ ParameterRanges |->
        [ CategoricalParameterRanges |-> <<>>,
          ContinuousParameterRanges |->
            << [MaxValue |-> "0.5", MinValue |-> "0.1", Name |-> "eta"] >>,
          IntegerParameterRanges |->
            << [MaxValue |-> "5", MinValue |-> "2", Name |-> "max_depth"] >> ],
      ResourceLimits |->
        [ MaxNumberOfTrainingJobs |-> 4, MaxParallelTrainingJobs |-> 2 ],
      Strategy |-> "Bayesian",
      HyperParameterTuningJobObjective |->
        [ MetricName |-> "validation:rmse", Type |-> "Minimize" ] ]

\* sagemaker.image_uris.retrieve(framework, region, version)
ImageUri(framework, reg, version) ==
    "ecr." \o reg \o ".amazonaws.com/sagemaker-" \o framework \o ":" \o version

Channel(name, uri) ==
    [ ChannelName |-> name,
      CompressionType |-> "None",
      ContentType |-> "csv",
      DataSource |->
        [ S3DataSource |->
            [ S3DataDistributionType |-> "FullyReplicated",
              S3DataType |-> "S3Prefix",
              S3Uri |-> uri ] ] ]

training_job_definition ==
    [ AlgorithmSpecification |->
        [ TrainingImage |-> training_image, TrainingInputMode |-> "File" ],
      InputDataConfig |->
        << Channel("train", s3_input_train),
           Channel("validation", s3_input_validation) >>,
      OutputDataConfig |->
        [ S3OutputPath |-> "s3://" \o bucket \o "/" \o prefix \o "/output" ],
      ResourceConfig |->
        [ InstanceCount |-> 1, InstanceType |-> "ml.m5.large",
          VolumeSizeInGB |-> 5 ],
      RoleArn |-> role,
      StaticHyperParameters |->
        [ num_round |-> "50", objective |-> "reg:squarederror",
          verbosity |-> "2" ],
      StoppingCondition |-> [ MaxRuntimeInSeconds |-> 1800 ] ]

---------------------------------------------------------------------------
(* The remote services *)

\* an s3://bucket/key URI as [bucket, key]
ParseS3Uri(uri) ==
    LET rest  == SubSeq(uri, Len("s3://") + 1, Len(uri))
        slash == Find(rest, "/")
    IN  IF slash = 0 THEN [bucket |-> rest, key |-> ""]
        ELSE [bucket |-> SubSeq(rest, 1, slash - 1),
              key    |-> SubSeq(rest, slash + 1, Len(rest))]

\* S3DataType = S3Prefix: the channel reads every object of the bucket
\* whose key begins with the URI's key
Resolves(uri, obj) ==
    /\ StartsWith(uri, "s3://")
    /\ ParseS3Uri(uri).bucket = obj.bucket
    /\ StartsWith(obj.key, ParseS3Uri(uri).key)

\* the service refuses a tuning-job name that is already in use
NameFree(name) == name \notin DOMAIN jobs

---------------------------------------------------------------------------
(* Initial states *)

Blank ==
    /\ run = 1
    /\ train_data = <<>>
    /\ validation_data = <<>>
    /\ test_data = <<>>
    /\ shapes = <<>>
    /\ files = <<>>
    /\ training_image = ""
    /\ jobs = <<>>
    /\ trials = [started |-> 0, running |-> 0]
    /\ rngTable = <<>>
    /\ rngDraws = 0
    /\ trace = <<>>
    /\ failedAt = "none"
    /\ uploaded = {}
    /\ requests = <<>>
    /\ history = <<>>
    /\ accepted = <<>>

\* the smallest dataset both calls of cell 4 accept
MinRows ==
    CHOOSE n \in 0..MaxN :
        /\ SplitShapes(n) # <<>>
        /\ \A m \in 0..(n - 1) : SplitShapes(m) = <<>>

\* cells 1 to 3 have run; the bucket is empty or holds a stale train object.
\* The dataset is empty, a single row, one row short of what cell 4 needs,
\* or the smallest that cell 4 splits.
Init ==
    /\ pc = "split1"
    /\ \E sess \in Sessions :
          /\ region = sess.region
          /\ bucket = sess.bucket
          /\ role = sess.role
          /\ s3 \in { <<>>, (<<sess.bucket, TrainKey>> :> <<>>) }
    /\ data \in { Rows(n) : n \in {0, 1, MinRows - 1, MinRows} }
    /\ Blank

---------------------------------------------------------------------------
(* Actions *)

\* train_data, test_data = train_test_split(data, test_size=0.2, random_state=42)
SplitFirst ==
    /\ pc = "split1"
    /\ LET n  == Len(data)
           ts == test_size_first
           ok == SplitOk(n, ts)
       IN  /\ pc' = NextCell(pc, ok)
           /\ failedAt' = Raised(pc, ok)
           /\ trace' = Append(trace, pc)
           /\ IF ok
              THEN \E p \in Shuffle(random_state, n) :
                     /\ rngTable' = (RngKey(random_state, n) :> p) @@ rngTable
                     /\ train_data' =
                          Take(data, IndTrain(p, NTest(n, ts), NTrain(n, ts)))
                     /\ test_data' = Take(data, IndTest(p, NTest(n, ts)))
                     /\ rngDraws' =
                          IF random_state = None THEN rngDraws + 1 ELSE rngDraws
              ELSE UNCHANGED <<rngTable, train_data, test_data, rngDraws>>
    /\ UNCHANGED <<run, region, bucket, role, data, validation_data, shapes,
                   files, s3, training_image, jobs, trials, uploaded,
                   requests, history, accepted>>

\* validation_data, test_data = train_test_split(test_data, test_size=0.5, random_state=42)
\* followed by the three prints of the shapes
SplitSecond ==
    /\ pc = "split2"
    /\ LET arr == SecondSplitInput
           n   == Len(arr)
           ts  == test_size_second
           ok  == SplitOk(n, ts)
       IN  /\ pc' = NextCell(pc, ok)
           /\ failedAt' = Raised(pc, ok)
           /\ trace' = Append(trace, pc)
           /\ IF ok
              THEN \E p \in Shuffle(random_state, n) :
                     /\ rngTable' = (RngKey(random_state, n) :> p) @@ rngTable
                     /\ validation_data' =
                          Take(arr, IndTrain(p, NTest(n, ts), NTrain(n, ts)))
                     /\ test_data' = Take(arr, IndTest(p, NTest(n, ts)))
                     /\ shapes' = << Len(train_data), NTrain(n, ts), NTest(n, ts) >>
                     /\ rngDraws' =
                          IF random_state = None THEN rngDraws + 1 ELSE rngDraws
              ELSE UNCHANGED <<rngTable, validation_data, test_data, shapes,
                               rngDraws>>
    /\ UNCHANGED <<run, region, bucket, role, data, train_data, files, s3,
                   training_image, jobs, trials, uploaded, requests, history,
                   accepted>>

\* train_data.to_csv('train.csv', ...); validation_data.to_csv('validation.csv', ...)
ToCsv ==
    /\ pc = "to_csv"
    /\ files' = ("train.csv" :> train_data)
                  @@ ("validation.csv" :> validation_data) @@ files
    /\ pc' = NextCell(pc, TRUE)
    /\ trace' = Append(trace, pc)
    /\ UNCHANGED <<run, region, bucket, role, data, train_data,
                   validation_data, test_data, shapes, s3, training_image,
                   jobs, trials, rngTable, rngDraws, failedAt, uploaded,
                   requests, history, accepted>>

\* Bucket(bucket).Object(key).upload_file(file): puts, replacing what is there
Upload(step, part, key, file) ==
    /\ pc = step
    /\ \E ok \in BOOLEAN :
          /\ pc' = NextCell(pc, ok)
          /\ failedAt' = Raised(pc, ok)
          /\ IF ok
             THEN /\ s3' = (<<bucket, key>> :> files[file]) @@ s3
                  /\ uploaded' = uploaded \cup
                        { [part |-> part, bucket |-> bucket, key |-> key] }
             ELSE UNCHANGED <<s3, uploaded>>
    /\ trace' = Append(trace, pc)
    /\ UNCHANGED <<run, region, bucket, role, data, train_data,
                   validation_data, test_data, shapes, files, training_image,
                   jobs, trials, rngTable, rngDraws, requests, history,
                   accepted>>

UploadTrain == Upload("upload_train", "train", TrainKey, "train.csv")

UploadValidation ==
    Upload("upload_validation", "validation", ValidationKey, "validation.csv")

\* training_image = sagemaker.image_uris.retrieve('xgboost', region, '1.0-1')
RetrieveImage ==
    /\ pc = "retrieve_image"
    /\ \E ok \in BOOLEAN :
          /\ pc' = NextCell(pc, ok)
          /\ failedAt' = Raised(pc, ok)
          /\ training_image' =
                IF ok THEN ImageUri("xgboost", region, "1.0-1")
                ELSE training_image
    /\ trace' = Append(trace, pc)
    /\ UNCHANGED <<run, region, bucket, role, data, train_data,
                   validation_data, test_data, shapes, files, s3, jobs,
                   trials, rngTable, rngDraws, uploaded, requests, history,
                   accepted>>

\* smclient.create_hyper_parameter_tuning_job(...): one request; the service
\* accepts it or answers with an error, and always refuses a name in use
Submit ==
    /\ pc = "submit"
    /\ LET req == [ HyperParameterTuningJobName |-> tuning_job_name,
                    HyperParameterTuningJobConfig |-> tuning_job_config,
                    TrainingJobDefinition |-> training_job_definition ]
       IN  /\ requests' = Append(requests, req)
           /\ \E ok \in BOOLEAN :
                 /\ ok => NameFree(tuning_job_name)
                 /\ pc' = NextCell(pc, ok)
                 /\ failedAt' = Raised(pc, ok)
                 /\ IF ok
                    THEN /\ jobs' = (tuning_job_name :> req) @@ jobs
                         /\ accepted' =
                               Append(accepted, [run |-> run, s3 |-> s3])
                    ELSE UNCHANGED <<jobs, accepted>>
    /\ trace' = Append(trace, pc)
    /\ UNCHANGED <<run, region, bucket, role, data, train_data,
                   validation_data, test_data, shapes, files, s3,
                   training_image, trials, rngTable, rngDraws, uploaded,
                   history>>

\* the kernel is restarted (after the run has ended or in the middle of it)
\* and the notebook is run again from the top: notebook variables are gone,
\* the working directory and the remote services keep what they hold
Rerun ==
    /\ pc # "split1"
    /\ run < MaxRuns
    /\ run' = run + 1
    /\ pc' = "split1"
    /\ train_data' = <<>>
    /\ validation_data' = <<>>
    /\ test_data' = <<>>
    /\ shapes' = <<>>
    /\ training_image' = ""
    /\ rngDraws' = 0
    /\ trace' = <<>>
    /\ failedAt' = "none"
    /\ uploaded' = {}
    /\ requests' = <<>>
    /\ history' =
          IF train_data # <<>>
          THEN Append(history,
                      [ complete |-> shapes # <<>>,
                        parts |-> <<train_data, validation_data, test_data>> ])
          ELSE history
    /\ UNCHANGED <<region, bucket, role, data, files, s3, jobs, trials,
                   rngTable, accepted>>

Next ==
    \/ SplitFirst
    \/ SplitSecond
    \/ ToCsv
    \/ UploadTrain
    \/ UploadValidation
    \/ RetrieveImage
    \/ Submit
    \/ Rerun

Spec == Init /\ [][Next]_vars

---------------------------------------------------------------------------
(* The tuning service running the accepted job: it starts trials within   *)
(* the ResourceLimits of the record it was given.                          *)

Limits == jobs[tuning_job_name].HyperParameterTuningJobConfig.ResourceLimits

StartTrial ==
    /\ tuning_job_name \in DOMAIN jobs
    /\ trials.running < Limits.MaxParallelTrainingJobs
    /\ trials.started < Limits.MaxNumberOfTrainingJobs
    /\ trials' = [started |-> trials.started + 1,
                  running |-> trials.running + 1]
    /\ UNCHANGED <<pc, run, region, bucket, role, data, train_data,
                   validation_data, test_data, shapes, files, s3,
                   training_image, jobs, rngTable, rngDraws, trace, failedAt,
                   uploaded, requests, history, accepted>>

FinishTrial ==
    /\ trials.running > 0
    /\ trials' = [trials EXCEPT !.running = @ - 1]
    /\ UNCHANGED <<pc, run, region, bucket, role, data, train_data,
                   validation_data, test_data, shapes, files, s3,
                   training_image, jobs, rngTable, rngDraws, trace, failedAt,
                   uploaded, requests, history, accepted>>

NextTrials ==
    \/ SplitFirst
    \/ SplitSecond
    \/ ToCsv
    \/ UploadTrain
    \/ UploadValidation
    \/ RetrieveImage
    \/ Submit
    \/ StartTrial
    \/ FinishTrial

SpecTrials == Init /\ [][NextTrials]_vars

---------------------------------------------------------------------------
(* Cell 4 alone, run and run again, on every dataset of up to MaxRows rows *)
(* and every permutation the generator may return                          *)

InitSplit ==
    /\ pc = "split1"
    /\ \E sess \in Sessions :
          /\ region = sess.region
          /\ bucket = sess.bucket
          /\ role = sess.role
    /\ s3 = <<>>
    /\ data \in { Rows(n) : n \in 0..MaxRows }
    /\ Blank

NextSplit ==
    \/ SplitFirst
    \/ SplitSecond
    \/ Rerun

SpecSplit == InitSplit /\ [][NextSplit]_vars

---------------------------------------------------------------------------
(* The size arithmetic of cell 4 alone, for row counts up to MaxN *)

InitSizes ==
    /\ pc = "sizes"
    /\ \E sess \in Sessions :
          /\ region = sess.region
          /\ bucket = sess.bucket
          /\ role = sess.role
    /\ s3 = <<>>
    /\ data \in { Rows(n) : n \in 0..MaxN }
    /\ Blank

PrintShapes ==
    /\ pc = "sizes"
    /\ shapes' = SplitShapes(Len(data))
    /\ pc' = "sized"
    /\ UNCHANGED <<run, region, bucket, role, data, train_data,
                   validation_data, test_data, files, s3, training_image,
                   jobs, trials, rngTable, rngDraws, trace, failedAt,
                   uploaded, requests, history, accepted>>

NextSizes == PrintShapes

SpecSizes == InitSizes /\ [][NextSizes]_vars

---------------------------------------------------------------------------
(* Properties *)

Range(f) == { f[i] : i \in DOMAIN f }

Abs(x) == IF x < 0 THEN -x ELSE x

Injective(f) == Cardinality(Range(f)) = Len(f)

\* the sizes bound by the two split actions are those of the size arithmetic
ShapesAgree ==
    shapes # <<>> =>
        /\ shapes = SplitShapes(Len(data))
        /\ shapes = <<Len(train_data), Len(validation_data), Len(test_data)>>

\* C1: once a statement has raised, the run is aborted with that statement
\* as the last one executed, no create request was sent unless the create
\* call itself raised, and every object uploaded in this run is still in
\* the bucket with the content of the local file it was uploaded from.
C1_FailureAbortsAndKeepsUploads ==
    failedAt # "none" =>
        /\ pc = "aborted"
        /\ trace # <<>> /\ trace[Len(trace)] = failedAt
        /\ failedAt # "submit" => requests = <<>>
        /\ failedAt = "upload_train" => uploaded = {}
        /\ \A u \in uploaded :
              /\ <<u.bucket, u.key>> \in DOMAIN s3
              /\ s3[<<u.bucket, u.key>>] = files[u.part \o ".csv"]

C1_Witness ==
    /\ failedAt = "upload_validation"
    /\ pc = "aborted"
    /\ \E u \in uploaded : u.part = "train" /\ <<u.bucket, u.key>> \in DOMAIN s3
    /\ requests = <<>>

\* C2: in a run at most one create request is sent; the create call is the
\* last statement executed, comes after both uploads have completed, and
\* the run has ended (accepted or rejected) once it has been made.
C2_SubmitOnceAndLast ==
    /\ Len(requests) <= 1
    /\ \A i \in DOMAIN trace :
          trace[i] = "submit" =>
              /\ i = Len(trace)
              /\ Len(requests) = 1
              /\ pc \in {"done", "aborted"}
              /\ \E j \in 1..(i - 1) : trace[j] = "upload_train"
              /\ \E j \in 1..(i - 1) : trace[j] = "upload_validation"
              /\ { u.part : u \in uploaded } = {"train", "validation"}

C2_Witness ==
    /\ pc = "aborted"
    /\ failedAt = "submit"
    /\ Len(requests) = 1
    /\ jobs = <<>>

\* C3: when cell 4 has bound the three partitions, they are pairwise
\* disjoint, none repeats a row, together they hold exactly the input rows,
\* and their sizes add up to the number of input rows.
C3_PartitionsDisjointAndComplete ==
    shapes # <<>> =>
        /\ Range(train_data) \cap Range(validation_data) = {}
        /\ Range(train_data) \cap Range(test_data) = {}
        /\ Range(validation_data) \cap Range(test_data) = {}
        /\ Range(train_data) \cup Range(validation_data) \cup Range(test_data)
             = Range(data)
        /\ Injective(train_data)
        /\ Injective(validation_data)
        /\ Injective(test_data)
        /\ Len(train_data) + Len(validation_data) + Len(test_data) = Len(data)

C3_Witness ==
    /\ shapes # <<>>
    /\ Len(train_data) > 1
    /\ Len(validation_data) > 0
    /\ Len(test_data) > 0

\* C4: the partitions hold 60%, 20% and 20% of the input rows (each within
\* one row, to allow for rounding).
C4_Ratio_60_20_20 ==
    (pc = "sized" /\ shapes # <<>>) =>
        LET n == Len(data)
        IN  /\ Abs(5 * shapes[1] - 3 * n) <= 5
            /\ Abs(5 * shapes[2] - n) <= 5
            /\ Abs(5 * shapes[3] - n) <= 5

C6_ChannelsPointAtUploads ==
    \A r \in DOMAIN requests :
        LET chans == requests[r].TrainingJobDefinition.InputDataConfig
            Uri(j) == chans[j].DataSource.S3DataSource.S3Uri
        IN  \A c \in {"train", "validation"} :
              /\ Cardinality({ j \in DOMAIN chans : chans[j].ChannelName = c }) = 1
              /\ \E u \in uploaded : u.part = c
              /\ \A j \in DOMAIN chans :
                    chans[j].ChannelName = c =>
                        \A u \in uploaded :
                            IF u.part = c
                            THEN /\ ParseS3Uri(Uri(j)).bucket = u.bucket
                                 /\ StartsWith(ParseS3Uri(Uri(j)).key, prefix \o "/")
                                 /\ u.key = prefix \o "/" \o c \o "/" \o c \o ".csv"
                                 /\ Resolves(Uri(j), u)
                            ELSE ~Resolves(Uri(j), u)

C6_Witness ==
    /\ pc = "done"
    /\ Len(requests) = 1
    /\ Cardinality(uploaded) = 2
    /\ \A k \in { <<u.bucket, u.key>> : u \in uploaded } : k \in DOMAIN s3

\* C7: in every request sent, the search space has no categorical entry,
\* one continuous entry eta with bounds [0.1, 0.5] and one integer entry
\* max_depth with bounds [2, 5]; every entry has MinValue <= MaxValue and
\* no name occurs in two kind-lists.
C7_SearchSpace ==
    \A r \in DOMAIN requests :
        LET pr   == requests[r].HyperParameterTuningJobConfig.ParameterRanges
            cat  == pr.CategoricalParameterRanges
            cont == pr.ContinuousParameterRanges
            int  == pr.IntegerParameterRanges
            Names(l) == { l[i].Name : i \in DOMAIN l }
        IN  /\ Len(cat) = 0
            /\ Len(cont) = 1
            /\ cont[1].Name = "eta"
            /\ DecimalEq(ParseDecimal(cont[1].MinValue), [num |-> 1, scale |-> 1])
            /\ DecimalEq(ParseDecimal(cont[1].MaxValue), [num |-> 5, scale |-> 1])
            /\ Len(int) = 1
            /\ int[1].Name = "max_depth"
            /\ ParseDecimal(int[1].MinValue) = [num |-> 2, scale |-> 0]
            /\ ParseDecimal(int[1].MaxValue) = [num |-> 5, scale |-> 0]
            /\ \A e \in Range(cont) \cup Range(int) :
                  DecimalLeq(ParseDecimal(e.MinValue), ParseDecimal(e.MaxValue))
            /\ Names(cat) \cap Names(cont) = {}
            /\ Names(cat) \cap Names(int) = {}
            /\ Names(cont) \cap Names(int) = {}

C7_Witness ==
    /\ Len(requests) = 1
    /\ tuning_job_name \in DOMAIN jobs
    /\ jobs[tuning_job_name].HyperParameterTuningJobConfig = tuning_job_config

\* C8: every request sent declares 4 training jobs in total and 2 in
\* parallel, and the service, keeping to the accepted record, never has
\* more than 2 trials running nor more than 4 started.
C8_ResourceLimits ==
    /\ \A r \in DOMAIN requests :
          LET rl == requests[r].HyperParameterTuningJobConfig.ResourceLimits
          IN  /\ rl.MaxNumberOfTrainingJobs = 4
              /\ rl.MaxParallelTrainingJobs = 2
              /\ rl.MaxParallelTrainingJobs <= rl.MaxNumberOfTrainingJobs
    /\ trials.running <= 2
    /\ trials.started <= 4

C8_Witness ==
    /\ tuning_job_name \in DOMAIN jobs
    /\ trials.started = 4
    /\ trials.running = 2

\* C9: what a later run of cell 4 has bound after its first call, and after
\* its second call, is what every earlier run had bound at the same point
\* (same rows, in the same order, in train, validation and test).
C9_SplitDeterministic ==
    train_data # <<>> =>
        \A h \in DOMAIN history :
            history[h].complete = (shapes # <<>>) =>
                history[h].parts = <<train_data, validation_data, test_data>>

C9_Witness ==
    /\ run = 2
    /\ shapes # <<>>
    /\ Len(validation_data) > 0
    /\ \E h \in DOMAIN history :
          /\ history[h].complete
          /\ history[h].parts = <<train_data, validation_data, test_data>>

\* C10: over all runs at most one tuning job is created; in a run after one
\* whose submission was accepted, remote storage stays what it was when the
\* job was accepted (the uploads replace the two objects by equal content),
\* and a create request, if the run reaches it, is refused.
C10_RerunCollides ==
    /\ Len(accepted) <= 1
    /\ Cardinality(DOMAIN jobs) <= 1
    /\ \A a \in DOMAIN accepted :
          accepted[a].run < run =>
              /\ s3 = accepted[a].s3
              /\ requests # <<>> => failedAt = "submit" /\ pc = "aborted"

C10_Witness ==
    /\ run = 2
    /\ Len(accepted) = 1
    /\ accepted[1].run = 1
    /\ Cardinality(uploaded) = 2
    /\ failedAt = "submit"
    /\ s3 = accepted[1].s3

=============================================================================
